---- MODULE Spec2Model ----
(***************************************************************************)
(* Model of src/src/main.rs: the pong game's App state, App::on_tick,      *)
(* reset, x_randomize, and the main / run_app control loop.                *)
(*                                                                         *)
(* Lengths, positions and velocities are f64 in the source; here they are  *)
(* exact decimals in TENTHS of a unit (5.0 is 50, 0.1 is 1), times are in   *)
(* milliseconds, and win_time (seconds, f64) is kept in thousandths of a   *)
(* second. score is u16 and tick_count u64: neither gets near its width    *)
(* within the model's horizon.                                             *)
(*                                                                         *)
(* Three specifications run the same actions under different inputs: Spec  *)
(* and Spec2 each follow one play-through and let the inputs go free at    *)
(* chosen ticks; Spec3 lets every input go free, with the input events     *)
(* queued, for the first iterations of the run_app loop.                   *)
(***************************************************************************)
EXTENDS Integers, Sequences, FiniteSets, TLC

VARIABLES
    pc,        \* position in main / run_app
    raw,       \* terminal raw mode is enabled
    alt,       \* terminal is in the alternate screen
    res,       \* what run_app returned: "none", "ok", "err"
    app,       \* the App value (fields of struct App)
    elapsed,   \* last_tick.elapsed(), ms
    queue,     \* the input events that are pending, oldest first
    replay,    \* TRUE while every input so far was the reference run's
    spent,     \* ticks run since the run left the reference run
    iter,      \* history: iterations of the run_app loop begun
    frames,    \* history: calls of terminal.draw
    ticks,     \* history: calls of app.on_tick
    now,       \* history: time passed since run_app set last_tick, ms
    quit       \* history: the first 'q' queued: k, the events ahead of it
               \* when it arrived, and by, the iteration that reads it

vars == <<pc, raw, alt, res, app, elapsed, queue, replay, spent,
          iter, frames, ticks, now, quit>>

\* no 'q' has been queued
NoQuit == [k |-> 0, by |-> 0]

\* the history variables of the third specification
hist == <<iter, frames, ticks, now, quit>>

(* ------------------------------ constants ------------------------------ *)

Left == 100                \* playground.left()
Top == 100                 \* playground.top()
Right == 1600              \* playground.right() = 10 + 150
Bottom == 1100             \* playground.bottom() = 10 + 100
BallWidth == 50
BallHeight == 50
BoardX0 == 100
BoardY == 100
BoardWidth == 100
BoardHeight == 30
CpuX0 == 100
CpuY == 1050
CpuWidth == 100
CpuHeight == 30
Vx0 == 10
Vy0 == 10
VxStep == 2
VyStep == 1
RampTicks == 1024          \* tick_count & 0x3FF == 0
SampleTicks == 16          \* tick_count & 0xF == 0xF
SignalUpper == 100         \* RandomSignal::new(0, 100)
StreamLen == 200
WinScore == 10
WinTimeFactor == 40        \* win_time = tick_count * 40.0 / 1000.0
TickRate == 25             \* Duration::from_millis(25)
CpuMidline == 500          \* ball.y > 50.0
CpuStep == 40              \* 4.0 + rx
CpuMargin == 100           \* cpu.x + 10.0 < right
BoardStep == 50            \* board.x += 5.0
BoardMargin == 100         \* board.x + 10.0 < right
HotLine == 300             \* ball.y < 30.0
CoinSides == 9             \* gen_range(0..9)
CoinGate == 4              \* > 4

(* ------------------------------- bounds -------------------------------- *)

MaxTick == 2060            \* the reference run is followed up to this tick
FreeLen == 6               \* ticks of unrestricted input after each window start
MaxElapsed == 2            \* elapsed is capped at MaxElapsed * TickRate
MaxTick2 == 1100           \* the second reference run is followed up to this tick
MaxIter == 3               \* loop iterations of the third specification
MaxQueue == 2              \* pending input events of the third specification

Min(a, b) == IF a < b THEN a ELSE b
Max(a, b) == IF a > b THEN a ELSE b

(* ------------------------------ App::new ------------------------------- *)

\* signal.by_ref().take(200).collect(): 200 samples of [0, 100)
Stream(seed) == [i \in 1..StreamLen |-> (seed * i) % SignalUpper]

\* sound is not a field of App: it tells whether the last on_tick appended
\* pongsound to its sink ("pong") or not ("none")
new(stream) ==
    [ ball_x |-> 0, ball_y |-> 0, ball_color |-> "Red",
      board_x |-> BoardX0, cpu_x |-> CpuX0,
      vx |-> Vx0, vy |-> Vy0, rx |-> 0,
      dir_x |-> TRUE, dir_y |-> TRUE,
      score |-> 0, tick_count |-> 0,
      bump |-> 0, bump_tick |-> 0,
      streamdata |-> stream,
      win |-> FALSE, win_time |-> 0,
      sound |-> "none" ]

\* no App exists (before App::new, and after run_app has returned or unwound)
NoApp == new(<<>>)

(* --------------------------- x_randomize ------------------------------- *)

\* the first arm as 67.. instead of 66..
x_randomize_above(v) == IF v > 66 THEN 1 ELSE IF v >= 33 THEN -1 ELSE 0

x_randomize(v) == IF v >= 66 THEN 1 ELSE IF v >= 33 THEN -1 ELSE 0

(* --------------------------- App::on_tick ------------------------------ *)

ball_bounds(a) == <<a.ball_x - BallWidth \div 2, a.ball_x + BallWidth \div 2>>
board_bounds(a) == <<a.board_x - BoardWidth \div 2, a.board_x + BoardWidth \div 2>>
cpu_bounds(a) == <<a.cpu_x - CpuWidth \div 2, a.cpu_x + CpuWidth \div 2>>

\* the test of the ball's left edge alone
StraddleLeftEdge(b, p) == b[1] > p[1] /\ b[1] < p[2]

\* the overlap test of lines 175-176 and 185-186
Straddle(b, p) ==
    \/ b[1] > p[1] /\ b[1] < p[2]
    \/ b[2] < p[2] /\ b[2] > p[1]

AboveTop(a) == a.ball_y < Top
BelowBottom(a) == a.ball_y + BallHeight > Bottom
BeyondWall(a) == a.ball_x < Left \/ a.ball_x + BallWidth > Right

WallBounce(a) ==
    IF BeyondWall(a) THEN [a EXCEPT !.dir_x = ~a.dir_x] ELSE a

\* the decrement without its floor, wrapping at the width of u16
ScoreDownWrap(s) == (s - 1) % 65536

ScoreDown(s) == IF s > 0 THEN s - 1 ELSE s

TopBounce(a, v) ==
    IF AboveTop(a)
    THEN [a EXCEPT !.dir_y = ~a.dir_y, !.rx = x_randomize(v),
                   !.score = ScoreDown(a.score)]
    ELSE a

ScoreUp(s) == s + 1

\* the plain wall bounce: no score
BottomBounceNoScore(a, v) ==
    IF BelowBottom(a)
    THEN [a EXCEPT !.dir_y = ~a.dir_y, !.rx = x_randomize(v)]
    ELSE a

BottomBounce(a, v) ==
    IF BelowBottom(a)
    THEN [a EXCEPT !.dir_y = ~a.dir_y, !.rx = x_randomize(v),
                   !.score = ScoreUp(a.score)]
    ELSE a

\* bb, cb: the bounds computed at the start of the tick
CpuMove(a, coin, bb, cb) ==
    IF a.dir_y /\ a.ball_y > CpuMidline /\ coin > CoinGate
    THEN IF a.dir_x /\ cb[1] < bb[2] /\ a.cpu_x + CpuMargin < Right
         THEN [a EXCEPT !.cpu_x = a.cpu_x + (CpuStep + a.rx)]
         ELSE IF ~a.dir_x /\ cb[2] > bb[1] /\ a.cpu_x > Left
         THEN [a EXCEPT !.cpu_x = a.cpu_x - (CpuStep + a.rx)]
         ELSE a
    ELSE a

CpuHit(a, bb, cb) ==
    IF a.ball_y > CpuY - CpuHeight /\ Straddle(bb, cb)
    THEN [a EXCEPT !.dir_y = FALSE,
                   !.sound = IF a.dir_y /\ ~a.win THEN "pong" ELSE a.sound]
    ELSE a

BoardHit(a, bb, pb) ==
    IF Straddle(bb, pb)
    THEN LET hot == IF a.ball_y < HotLine
                    THEN [a EXCEPT !.ball_color = "Yellow"] ELSE a
         IN  IF hot.ball_y < BoardY + BoardHeight
             THEN [hot EXCEPT !.dir_y = TRUE,
                              !.sound = IF ~hot.dir_y /\ ~hot.win
                                        THEN "pong" ELSE hot.sound]
             ELSE hot
    ELSE [a EXCEPT !.ball_color = "Red"]

MoveBall(a) ==
    [a EXCEPT !.ball_x = IF a.dir_x THEN a.ball_x + (a.vx + a.rx)
                                    ELSE a.ball_x - (a.vx + a.rx),
              !.ball_y = IF a.dir_y THEN a.ball_y + a.vy
                                    ELSE a.ball_y - a.vy]

\* the percentage rounded up
BumpPercentCeil(bt) == (bt * 100 + RampTicks - 1) \div RampTicks

\* ((bump_tick as f64 / 1024.0) * 100.0) as u16
BumpPercent(bt) == (bt * 100) \div RampTicks

Count(a) ==
    [a EXCEPT !.bump = BumpPercent(a.bump_tick),
              !.tick_count = a.tick_count + 1,
              !.bump_tick = a.bump_tick + 1]

\* the ramp interval of 512 ticks
RampDueHalf(t) == t % 512 = 0

RampDue(t) == t % RampTicks = 0

\* the ramp with the same step on both axes
RampSameStep(a) ==
    IF RampDue(a.tick_count)
    THEN [a EXCEPT !.vx = a.vx + VxStep, !.vy = a.vy + VxStep, !.bump_tick = 0]
    ELSE a

Ramp(a) ==
    IF RampDue(a.tick_count)
    THEN [a EXCEPT !.vx = a.vx + VxStep, !.vy = a.vy + VyStep, !.bump_tick = 0]
    ELSE a

\* the sampling test without the win flag
SampleDueAnyTime(a) == a.tick_count % SampleTicks = SampleTicks - 1

SampleDue(a) == a.win /\ a.tick_count % SampleTicks = SampleTicks - 1

\* the insert without the pop
PushFrontNoPop(s, value) == <<value>> \o s

\* streamdata.pop(); streamdata.insert(0, value)
PushFront(s, value) ==
    <<value>> \o (IF Len(s) = 0 THEN s ELSE SubSeq(s, 1, Len(s) - 1))

Telemetry(a, value) ==
    IF SampleDue(a)
    THEN [a EXCEPT !.streamdata = PushFront(a.streamdata, value)]
    ELSE a

\* coin: gen_range(0..9); v: the sample x_randomize draws; value: the
\* telemetry sample
on_tick(a, coin, v, value) ==
    LET bb == ball_bounds(a)
        pb == board_bounds(a)
        cb == cpu_bounds(a)
        s0 == [a EXCEPT !.sound = "none"]
        s1 == WallBounce(s0)
        s2 == TopBounce(s1, v)
        s3 == BottomBounce(s2, v)
        s4 == CpuMove(s3, coin, bb, cb)
        s5 == CpuHit(s4, bb, cb)
        s6 == BoardHit(s5, bb, pb)
        s7 == MoveBall(s6)
        s8 == Count(s7)
        s9 == Ramp(s8)
    IN  Telemetry(s9, value)

(* ------------------------------- reset --------------------------------- *)

\* the reset that also serves the ball again from the middle
reset_reposition(a) ==
    [a EXCEPT !.vx = Vx0, !.vy = Vy0, !.rx = 0, !.score = 0,
              !.tick_count = 0, !.bump = 0, !.bump_tick = 0,
              !.win = FALSE, !.win_time = 0,
              !.ball_x = (Left + Right) \div 2, !.ball_y = (Top + Bottom) \div 2]

reset(a) ==
    [a EXCEPT !.vx = Vx0, !.vy = Vy0, !.rx = 0, !.score = 0,
              !.tick_count = 0, !.bump = 0, !.bump_tick = 0,
              !.win = FALSE, !.win_time = 0]

(* ------------------------- inputs and horizon -------------------------- *)

\* The reference run: one play-through from the start of main in which the
\* terminal and the audio work, the ball starts at (50.0, 99.5), every random
\* sample is 0 except the telemetry samples (50), the CPU paddle's coin never
\* passes its gate, every iteration ends in a tick, and the player presses
\* Left/Right to keep the paddle under the ball while the ball travels up.
Ref == [ start |-> <<500, 995>>, seed |-> 7, coin |-> 0, v |-> 0, value |-> 50 ]

RefKey(a) ==
    IF ~a.dir_y /\ a.ball_x > a.board_x + BallWidth \div 2 THEN "Right"
    ELSE IF ~a.dir_y /\ a.ball_x < a.board_x - BallWidth \div 2 THEN "Left"
    ELSE "none"

\* Windows: the ticks of the reference run at which the run may leave it;
\* from then on every input is unrestricted, for FreeLen ticks.
Windows == {0, 6, 97, 1021, 1786, 1871}

\* the inputs offered in the current state: all of S once the run has left
\* the reference run or may leave it here, the reference input d otherwise
Offered(S, d) == IF ~replay \/ app.tick_count \in Windows THEN S ELSE {d}

\* the horizon: the reference run is followed up to MaxTick, any other run
\* for FreeLen ticks
Live == IF replay THEN app.tick_count < MaxTick ELSE spent < FreeLen

BallStarts == {<<500, 995>>, <<130, 995>>}
Seeds == {7}
Samples == {0, 32, 33, 65, 66, 99}
Coins == {0, CoinGate, CoinGate + 1, CoinSides - 1}
Values == {50, 99}
Keys == {"q", "r", "Right", "Left", "other"}
Durations == {0, TickRate}

\* the draws one on_tick can make from the current state: the coin is read
\* only below the midline, x_randomize runs only beyond the top or bottom
\* bound, a telemetry sample is taken only after the win
TickInputs ==
    (IF app.ball_y > CpuMidline THEN Coins ELSE {Ref.coin})
    \X (IF AboveTop(app) \/ BelowBottom(app) THEN Samples ELSE {Ref.v})
    \X (IF app.win THEN Values ELSE {Ref.value})
    \X BOOLEAN

Cap(t) == Min(t, MaxElapsed * TickRate)

\* one step A with its input drawn from the offered ones; replay stays TRUE
\* only if the step is the one the reference input d gives
Act(A(_), S, d) ==
    /\ Live
    /\ \E i \in Offered(S, d) : A(i)
    /\ replay' = (replay /\ A(d))
    /\ spent' = IF replay' THEN 0
                ELSE IF app'.tick_count = app.tick_count + 1 THEN spent + 1
                ELSE spent
    /\ UNCHANGED hist

(* -------------------------------- main --------------------------------- *)

Init ==
    /\ pc = "raw_mode"
    /\ raw = FALSE
    /\ alt = FALSE
    /\ res = "none"
    /\ app = NoApp
    /\ elapsed = 0
    /\ queue = <<>>
    /\ replay = TRUE
    /\ spent = 0
    /\ iter = 0
    /\ frames = 0
    /\ ticks = 0
    /\ now = 0
    /\ quit = NoQuit

\* enable_raw_mode()?
enable_raw_mode(ok) ==
    /\ pc = "raw_mode"
    /\ UNCHANGED queue
    /\ raw' = ok
    /\ pc' = IF ok THEN "alt_screen" ELSE "failed"
    /\ UNCHANGED <<alt, res, app, elapsed>>

\* execute!(stdout, EnterAlternateScreen, EnableMouseCapture)?
enter_screen(ok) ==
    /\ pc = "alt_screen"
    /\ UNCHANGED queue
    /\ alt' = ok
    /\ pc' = IF ok THEN "terminal" ELSE "failed"
    /\ UNCHANGED <<raw, res, app, elapsed>>

\* Terminal::new(backend)?
terminal_new(ok) ==
    /\ pc = "terminal"
    /\ UNCHANGED queue
    /\ pc' = IF ok THEN "app_new" ELSE "failed"
    /\ UNCHANGED <<raw, alt, res, app, elapsed>>

\* App::new(): Sound::new unwraps the audio device; i = <<ok, seed>>
app_new(i) ==
    /\ pc = "app_new"
    /\ UNCHANGED queue
    /\ IF i[1]
       THEN app' = new(Stream(i[2])) /\ pc' = "run_app"
       ELSE app' = app /\ pc' = "panicked"
    /\ UNCHANGED <<raw, alt, res, elapsed>>

\* run_app returns r: the App it owns is dropped
Return(r) ==
    /\ res' = r
    /\ app' = NoApp
    /\ elapsed' = 0
    /\ pc' = "restore_raw"
    /\ UNCHANGED <<raw, alt>>

\* a panic unwinds out of main: nothing after it runs
Panic ==
    /\ pc' = "panicked"
    /\ app' = NoApp
    /\ elapsed' = 0
    /\ UNCHANGED <<raw, alt, res>>

\* disable_raw_mode()?
disable_raw_mode(ok) ==
    /\ pc = "restore_raw"
    /\ UNCHANGED queue
    /\ raw' = IF ok THEN FALSE ELSE raw
    /\ pc' = IF ok THEN "leave_screen" ELSE "failed"
    /\ UNCHANGED <<alt, res, app, elapsed>>

\* execute!(.., LeaveAlternateScreen, DisableMouseCapture)?; show_cursor()?
leave_screen(ok) ==
    /\ pc = "leave_screen"
    /\ UNCHANGED queue
    /\ alt' = IF ok THEN FALSE ELSE alt
    /\ pc' = IF ok THEN "done" ELSE "failed"
    /\ UNCHANGED <<raw, res, app, elapsed>>

(* ------------------------------- run_app ------------------------------- *)

\* last_tick = Instant::now(); ball.x = gen_range(10.0..90.0), ball.y =
\* gen_range(10.0..100.0); xy = <<x, y>>
run_app_start(xy) ==
    /\ pc = "run_app"
    /\ UNCHANGED queue
    /\ app' = [app EXCEPT !.ball_x = xy[1], !.ball_y = xy[2]]
    /\ elapsed' = 0
    /\ pc' = "draw"
    /\ UNCHANGED <<raw, alt, res>>

\* terminal.draw(|f| ui(f, &app))?; i = <<ok, time the draw takes>>
draw(i) ==
    /\ pc = "draw"
    /\ UNCHANGED queue
    /\ IF i[1]
       THEN /\ elapsed' = Cap(elapsed + i[2])
            /\ pc' = "poll"
            /\ UNCHANGED <<raw, alt, res, app>>
       ELSE Return("err")

\* tick_rate.checked_sub(last_tick.elapsed()).unwrap_or_else(0)
timeout == Max(TickRate - elapsed, 0)

\* the Left arm without its guard
move_left_unguarded(a) == [a EXCEPT !.board_x = a.board_x - BoardStep]

move_right(a) ==
    IF a.board_x + BoardMargin < Right
    THEN [a EXCEPT !.board_x = a.board_x + BoardStep] ELSE a

move_left(a) ==
    IF a.board_x > Left
    THEN [a EXCEPT !.board_x = a.board_x - BoardStep] ELSE a

on_key(a, key) ==
    CASE key = "r" -> reset(a)
      [] key = "Right" -> move_right(a)
      [] key = "Left" -> move_left(a)
      [] OTHER -> a

\* the poll that reads input only while no tick is due
poll_unless_tick_due(i) ==
    /\ pc = "poll"
    /\ LET pending == queue # <<>> /\ elapsed < TickRate
           event == IF i[1] = "err" THEN "err"
                    ELSE IF pending THEN Head(queue)
                    ELSE IF queue # <<>> THEN "none" ELSE i[1]
       IN  /\ queue' = IF pending /\ event # "err" THEN Tail(queue) ELSE queue
           /\ CASE event = "err" -> Return("err")
                [] event = "q" -> Return("ok")
                [] OTHER ->
                     /\ app' = on_key(app, event)
                     /\ elapsed' = IF ~pending /\ (event = "none" \/ i[2])
                                   THEN Cap(elapsed + timeout) ELSE elapsed
                     /\ pc' = "tick"
                     /\ UNCHANGED <<raw, alt, res>>

\* event::poll(timeout)? and event::read()?; i = <<event, late>>. With an
\* event pending, poll returns at once and read takes the oldest one; i[1]
\* then only tells whether the call fails ("err"). With none pending, i[1]
\* is the key that arrives during the timeout, "none" (the poll times out)
\* or "err", and late tells whether the key arrives at the end of the
\* timeout or at once.
poll(i) ==
    /\ pc = "poll"
    /\ LET pending == queue # <<>>
           event == IF i[1] = "err" THEN "err"
                    ELSE IF pending THEN Head(queue) ELSE i[1]
       IN  /\ queue' = IF pending /\ event # "err" THEN Tail(queue) ELSE queue
           /\ CASE event = "err" -> Return("err")
                [] event = "q" -> Return("ok")
                [] OTHER ->
                     /\ app' = on_key(app, event)
                     /\ elapsed' = IF ~pending /\ (event = "none" \/ i[2])
                                   THEN Cap(elapsed + timeout) ELSE elapsed
                     /\ pc' = "tick"
                     /\ UNCHANGED <<raw, alt, res>>

\* the terminal delivers one more input event while run_app runs
press(key) ==
    /\ pc \in {"draw", "poll", "tick", "win"}
    /\ Len(queue) < MaxQueue
    /\ queue' = Append(queue, key)
    /\ UNCHANGED <<pc, raw, alt, res, app, elapsed>>

\* the tick that does not restart last_tick
tick_no_restart(i) ==
    /\ pc = "tick"
    /\ UNCHANGED queue
    /\ IF elapsed >= TickRate
       THEN LET a == on_tick(app, i[1], i[2], i[3])
            IN  IF a.sound = "pong" /\ ~i[4]
                THEN Panic
                ELSE /\ app' = a
                     /\ pc' = "win"
                     /\ UNCHANGED <<raw, alt, res, elapsed>>
       ELSE /\ pc' = "win"
            /\ UNCHANGED <<raw, alt, res, app, elapsed>>

\* if last_tick.elapsed() >= tick_rate { app.on_tick(); last_tick = now }
\* i = <<coin, v, value, sound_ok>>; play_sound unwraps the sound file
tick(i) ==
    /\ pc = "tick"
    /\ UNCHANGED queue
    /\ IF elapsed >= TickRate
       THEN LET a == on_tick(app, i[1], i[2], i[3])
            IN  IF a.sound = "pong" /\ ~i[4]
                THEN Panic
                ELSE /\ app' = a
                     /\ elapsed' = 0
                     /\ pc' = "win"
                     /\ UNCHANGED <<raw, alt, res>>
       ELSE /\ pc' = "win"
            /\ UNCHANGED <<raw, alt, res, app, elapsed>>

WinTime(t) == t * WinTimeFactor

\* the win flag recomputed from the score in every iteration
win_update_unlatched(a) ==
    [a EXCEPT !.win_time = IF a.score >= WinScore /\ ~a.win
                           THEN WinTime(a.tick_count) ELSE a.win_time,
              !.win = a.score >= WinScore]

\* if app.score >= 10 { if app.win == false { app.win_time = ..; .. }
\* app.win = true }
win_update(a) ==
    IF a.score >= WinScore
    THEN [a EXCEPT !.win_time = IF ~a.win THEN WinTime(a.tick_count)
                                ELSE a.win_time,
                   !.win = TRUE]
    ELSE a

\* the win check that ends every iteration; i = <<sound_ok, length of the
\* music>>: play_sound unwraps the sound file, sleep_until_end blocks
win_check(i) ==
    /\ pc = "win"
    /\ UNCHANGED queue
    /\ IF app.score >= WinScore /\ ~app.win /\ ~i[1]
       THEN Panic
       ELSE /\ app' = win_update(app)
            /\ elapsed' = IF app.score >= WinScore /\ ~app.win
                          THEN Cap(elapsed + i[2]) ELSE elapsed
            /\ pc' = "draw"
            /\ UNCHANGED <<raw, alt, res>>

(* ---------------------------- specification ---------------------------- *)

EnableRawMode == Act(enable_raw_mode, BOOLEAN, TRUE)
EnterScreen == Act(enter_screen, BOOLEAN, TRUE)
TerminalNew == Act(terminal_new, BOOLEAN, TRUE)
AppNew == Act(app_new, BOOLEAN \X Seeds, <<TRUE, Ref.seed>>)
RunAppStart == Act(run_app_start, BallStarts, Ref.start)
Draw == Act(draw, BOOLEAN \X Durations, <<TRUE, 0>>)
Poll == Act(poll, (Keys \cup {"none", "err"}) \X BOOLEAN, <<RefKey(app), TRUE>>)
Tick == Act(tick, TickInputs, <<Ref.coin, Ref.v, Ref.value, TRUE>>)
WinCheck == Act(win_check, BOOLEAN \X Durations, <<TRUE, TickRate>>)
DisableRawMode == Act(disable_raw_mode, BOOLEAN, TRUE)
LeaveScreen == Act(leave_screen, BOOLEAN, TRUE)

Next ==
    \/ EnableRawMode
    \/ EnterScreen
    \/ TerminalNew
    \/ AppNew
    \/ RunAppStart
    \/ Draw
    \/ Poll
    \/ Tick
    \/ WinCheck
    \/ DisableRawMode
    \/ LeaveScreen

Spec == Init /\ [][Next]_vars

(* ---------------------- the second reference run ----------------------- *)

\* The same program under a second play-through: the ball starts at
\* (27.6, 95.8), every sample x_randomize draws is 99 (rx = +0.1 from the
\* first bounce on), the CPU paddle's coin always passes its gate, and the
\* player returns every ball as in the first run.
Ref2 == [ start |-> <<276, 958>>, seed |-> 7, coin |-> CoinSides - 1, v |-> 99,
          value |-> 50 ]

\* the ticks of the second run at which the run may leave it: the ball has
\* just passed the left wall (267), the bottom bound (1097)
Windows2 == {267, 1097}

BallStarts2 == {<<276, 958>>}

Offered2(S, d) == IF ~replay \/ app.tick_count \in Windows2 THEN S ELSE {d}

Live2 == IF replay THEN app.tick_count < MaxTick2 ELSE spent < FreeLen

Act2(A(_), S, d) ==
    /\ Live2
    /\ \E i \in Offered2(S, d) : A(i)
    /\ replay' = (replay /\ A(d))
    /\ spent' = IF replay' THEN 0
                ELSE IF app'.tick_count = app.tick_count + 1 THEN spent + 1
                ELSE spent
    /\ UNCHANGED hist

EnableRawMode2 == Act2(enable_raw_mode, BOOLEAN, TRUE)
EnterScreen2 == Act2(enter_screen, BOOLEAN, TRUE)
TerminalNew2 == Act2(terminal_new, BOOLEAN, TRUE)
AppNew2 == Act2(app_new, BOOLEAN \X Seeds, <<TRUE, Ref2.seed>>)
RunAppStart2 == Act2(run_app_start, BallStarts2, Ref2.start)
Draw2 == Act2(draw, BOOLEAN \X Durations, <<TRUE, 0>>)
Poll2 == Act2(poll, (Keys \cup {"none", "err"}) \X BOOLEAN, <<RefKey(app), TRUE>>)
Tick2 == Act2(tick, TickInputs, <<Ref2.coin, Ref2.v, Ref2.value, TRUE>>)
WinCheck2 == Act2(win_check, BOOLEAN \X Durations, <<TRUE, TickRate>>)
DisableRawMode2 == Act2(disable_raw_mode, BOOLEAN, TRUE)
LeaveScreen2 == Act2(leave_screen, BOOLEAN, TRUE)

Next2 ==
    \/ EnableRawMode2
    \/ EnterScreen2
    \/ TerminalNew2
    \/ AppNew2
    \/ RunAppStart2
    \/ Draw2
    \/ Poll2
    \/ Tick2
    \/ WinCheck2
    \/ DisableRawMode2
    \/ LeaveScreen2

Spec2 == Init /\ [][Next2]_vars

(* ----------------------- the loop, step by step ------------------------ *)

\* The same program from the start of main with every input unrestricted,
\* the input events queued by the terminal, for MaxIter iterations of the
\* run_app loop. The history variables count what the loop has done.

BallStarts3 == {<<500, 995>>}
Pressed == {"q", "r", "Right", "other"}

\* the step calls app.on_tick()
OnTickCall == pc = "tick" /\ pc' # "tick" /\ elapsed >= TickRate

\* the time the step takes: on_tick and the keys take none, the draw, the
\* wait for input and the victory music take what they add to elapsed
Took ==
    IF pc \in {"draw", "poll", "win"} /\ pc' \in {"draw", "poll", "tick", "win"}
    THEN elapsed' - elapsed ELSE 0

Act3(A(_), S) ==
    /\ iter <= MaxIter
    /\ \E i \in S : A(i)
    /\ iter' = IF pc' = "draw" /\ pc # "draw" THEN iter + 1 ELSE iter
    /\ frames' = IF pc = "draw" /\ pc' # "draw" THEN frames + 1 ELSE frames
    /\ ticks' = IF OnTickCall THEN ticks + 1 ELSE ticks
    /\ now' = now + Took
    /\ UNCHANGED <<replay, spent>>

\* the 'q' that arrives behind k = Len(queue) pending events is read k
\* iterations after the first one that can read it: the current iteration
\* if it has not polled yet, the next one otherwise
Arrives(key) ==
    /\ press(key)
    /\ quit' = IF key = "q" /\ quit = NoQuit
               THEN [k |-> Len(queue),
                     by |-> iter + Len(queue)
                            + (IF pc \in {"draw", "poll"} THEN 0 ELSE 1)]
               ELSE quit

EnableRawMode3 == Act3(enable_raw_mode, BOOLEAN) /\ UNCHANGED quit
EnterScreen3 == Act3(enter_screen, BOOLEAN) /\ UNCHANGED quit
TerminalNew3 == Act3(terminal_new, BOOLEAN) /\ UNCHANGED quit
AppNew3 == Act3(app_new, BOOLEAN \X Seeds) /\ UNCHANGED quit
RunAppStart3 == Act3(run_app_start, BallStarts3) /\ UNCHANGED quit
Draw3 == Act3(draw, BOOLEAN \X Durations) /\ UNCHANGED quit
Poll3 == Act3(poll, (Keys \cup {"none", "err"}) \X BOOLEAN) /\ UNCHANGED quit
Tick3 == Act3(tick, TickInputs) /\ UNCHANGED quit
WinCheck3 == Act3(win_check, BOOLEAN \X Durations) /\ UNCHANGED quit
DisableRawMode3 == Act3(disable_raw_mode, BOOLEAN) /\ UNCHANGED quit
LeaveScreen3 == Act3(leave_screen, BOOLEAN) /\ UNCHANGED quit
Press3 == Act3(Arrives, Pressed)

Next3 ==
    \/ EnableRawMode3
    \/ EnterScreen3
    \/ TerminalNew3
    \/ AppNew3
    \/ RunAppStart3
    \/ Draw3
    \/ Poll3
    \/ Tick3
    \/ WinCheck3
    \/ DisableRawMode3
    \/ LeaveScreen3
    \/ Press3

Spec3 == Init /\ [][Next3]_vars

(* ------------------------------- claims -------------------------------- *)

\* run_app is executing its loop
InRunApp == pc \in {"draw", "poll", "tick", "win"}

\* the step is one call of app.on_tick()
OnTickStep == pc = "tick" /\ pc' = "win" /\ elapsed >= TickRate

\* the step handles one input event and stays in the loop
KeyStep == pc = "poll" /\ pc' = "tick"

\* the step handles the key 'r'
ResetStep == KeyStep /\ app' = reset(app)

\* C1: the score is never negative; a tick that starts with the ball above
\* the top bound lowers the score by exactly 1 when it is positive and leaves
\* it at 0 when it is 0.
C1_ScoreFloor ==
    [][ /\ app'.score >= 0
        /\ OnTickStep /\ AboveTop(app) =>
             app'.score = IF app.score > 0 THEN app.score - 1 ELSE 0 ]_vars

\* a tick that began above the top bound has just ended with the score at 0
C1_Witness ==
    /\ pc = "win"
    /\ app.tick_count % RampTicks # 0
    /\ app.dir_y
    /\ app.ball_y - app.vy < Top
    /\ app.score = 0

\* a tick that began above the top bound with a positive score has ended
C1_WitnessPositive ==
    /\ pc = "win"
    /\ app.tick_count % RampTicks # 0
    /\ app.dir_y
    /\ app.ball_y - app.vy < Top
    /\ app.score = WinScore - 1
    /\ app.win

\* C2: once win is true it stays true through every later tick and paddle
\* move, also with the score back below 10, until a reset; win_time changes
\* only in the step that turns win from false to true, or in a reset.
C2_WinLatch ==
    [][ InRunApp /\ InRunApp' =>
          /\ app.win /\ ~ResetStep => app'.win
          /\ app'.win_time # app.win_time =>
               ResetStep \/ (pc = "win" /\ ~app.win /\ app'.win) ]_vars

\* win is still true with the score decremented below 10
C2_Witness == InRunApp /\ app.win /\ app.score < WinScore

\* C3 (as claimed): at the transition of win from false to true, win_time is
\* tick_count times the tick interval (25 ms) divided by 1000.
C3_WinTimeByTickRate ==
    [][ InRunApp' /\ ~app.win /\ app'.win =>
          app'.win_time = app'.tick_count * TickRate ]_vars

\* an App exists
AppExists == pc = "run_app" \/ InRunApp

C5_SpeedNeverDrops ==
    [][ InRunApp /\ InRunApp' /\ ~ResetStep =>
          IF OnTickStep
          THEN \/ app'.vx = app.vx /\ app'.vy = app.vy
               \/ app'.vx = app.vx + VxStep /\ app'.vy = app.vy + VyStep
          ELSE app'.vx = app.vx /\ app'.vy = app.vy ]_vars

\* the second ramp has been applied
C5_Witness ==
    /\ InRunApp
    /\ app.tick_count >= 2 * RampTicks
    /\ app.vx = Vx0 + 2 * VxStep
    /\ app.vy = Vy0 + 2 * VyStep

\* C6: the telemetry buffer has length 200 in every state, before and after
\* the win.
C6_StreamLength == AppExists => Len(app.streamdata) = StreamLen

\* after the win one telemetry update has shifted the buffer by one
C6_Witness ==
    /\ InRunApp /\ app.win
    /\ Len(app.streamdata) = StreamLen
    /\ app.streamdata[1] \in Values
    /\ SubSeq(app.streamdata, 2, StreamLen)
         = SubSeq(Stream(Ref.seed), 1, StreamLen - 1)

\* the mapping C7 states, over every sample of [0, 100)
JitterMapping ==
    \A v \in 0..(SignalUpper - 1) :
        /\ v >= 66 => x_randomize(v) = 1
        /\ v >= 33 /\ v < 66 => x_randomize(v) = -1
        /\ v < 33 => x_randomize(v) = 0

\* C7: x_randomize maps a sample v of [0, 100) to +0.1 when v >= 66, to -0.1
\* when 33 <= v < 66 and to 0.0 when v < 33; rx is one of 0.0, -0.1, +0.1 in
\* every state, and 0.0 when run_app starts.
C7_Jitter ==
    /\ JitterMapping
    /\ AppExists => app.rx \in {0, -1, 1}
    /\ pc = "run_app" => app.rx = 0

\* a bounce has drawn a sample of 66 or more: rx is +0.1
C7_Witness == InRunApp /\ app.rx = 1 /\ app.score > 0

\* C8: an on_tick that starts with the ball's bottom edge beyond the bottom
\* bound and dir_y true ends with dir_y false, the score one higher and rx
\* the x_randomize mapping of a sample.
C8_BottomBounce ==
    [][ OnTickStep /\ BelowBottom(app) /\ app.dir_y =>
          /\ ~app'.dir_y
          /\ app'.score = app.score + 1
          /\ \E v \in 0..(SignalUpper - 1) : app'.rx = x_randomize(v) ]_vars

\* a tick that began beyond the bottom bound has ended: the ball travels up
\* from below the bound, with a re-rolled rx
C8_Witness ==
    /\ pc = "win"
    /\ app.tick_count % RampTicks # 0
    /\ ~app.dir_y
    /\ app.ball_y + app.vy + BallHeight > Bottom
    /\ app.score = 1
    /\ app.rx = -1

\* the open intervals b and p intersect
Intersect(b, p) == b[1] < p[2] /\ p[1] < b[2]

\* C9: for the ball and either paddle the straddle test reports overlap
\* exactly when the two open intervals intersect, in particular when the
\* paddle's interval contains the ball's.
C9_StraddleIsOverlap ==
    AppExists =>
        \A p \in {board_bounds(app), cpu_bounds(app)} :
            Straddle(ball_bounds(app), p) <=> Intersect(ball_bounds(app), p)

\* the board's interval contains the ball's and the test reports overlap
C9_Witness ==
    /\ pc = "tick"
    /\ board_bounds(app)[1] < ball_bounds(app)[1]
    /\ ball_bounds(app)[2] < board_bounds(app)[2]
    /\ Straddle(ball_bounds(app), board_bounds(app))

\* C10 (as claimed): whenever main ends after raw mode or the alternate
\* screen was entered, the terminal has been restored.
C10_TerminalRestored ==
    pc \in {"done", "failed", "panicked"} => ~raw /\ ~alt

\* the fields reset writes
ResetFields ==
    {"vx", "vy", "rx", "score", "tick_count", "bump", "bump_tick", "win",
     "win_time"}

\* C11: the key 'r', handled in any reachable state, sets vx, vy, rx, score,
\* tick_count, bump, bump_tick, win and win_time to their App::new values and
\* leaves every other field unchanged: the ball's position, both paddles'
\* positions, dir_x, dir_y and the telemetry buffer.
C11_ResetFrame ==
    InRunApp =>
        LET r == on_key(app, "r")
        IN  /\ \A f \in ResetFields : r[f] = new(<<>>)[f]
            /\ \A f \in DOMAIN app \ ResetFields : r[f] = app[f]

\* a reset after the win has just been handled: the counters are back at
\* their initial values, the ball, the player's paddle and the telemetry
\* buffer are where the game left them
C11_Witness ==
    /\ pc = "tick" /\ ~replay
    /\ \A f \in ResetFields : app[f] = new(<<>>)[f]
    /\ app.ball_y # 0
    /\ app.board_x # BoardX0
    /\ ~app.dir_y
    /\ app.streamdata # Stream(Ref.seed)

\* the step handles the key Right or Left
MoveStep == KeyStep /\ app' \in {move_right(app), move_left(app)}

\* C12: board.x lies within [left, right] in every state; it is changed only
\* by the Left and Right keys, never by on_tick or reset.
C12_BoardInArena ==
    [][ /\ AppExists' => app'.board_x >= Left /\ app'.board_x <= Right
        /\ InRunApp /\ InRunApp' /\ app'.board_x # app.board_x => MoveStep
        /\ OnTickStep \/ ResetStep => app'.board_x = app.board_x ]_vars

\* the Left key has just been handled with the paddle at the left bound: the
\* paddle stays there
C12_Witness ==
    /\ pc = "tick" /\ ~replay
    /\ elapsed < TickRate
    /\ app.board_x = Left
    /\ app.tick_count > 0

\* Right keys have taken the paddle to its rightmost position
C12_WitnessRight ==
    /\ pc = "tick" /\ ~replay
    /\ app.board_x + BoardMargin = Right

\* C13 (as claimed): cpu.x stays within [left, right] in every reachable
\* state.
C13_CpuInArena == AppExists => app.cpu_x >= Left /\ app.cpu_x <= Right

BeyondLeft(a) == a.ball_x < Left
BeyondRight(a) == a.ball_x + BallWidth > Right

\* C14 (as claimed): the ball is never beyond the same horizontal wall at
\* the start of two consecutive ticks. No step between two ticks moves the
\* ball, so the next tick starts where this one ends.
C14_NoWallTwice ==
    [][ OnTickStep =>
          /\ BeyondLeft(app) => ~BeyondLeft(app')
          /\ BeyondRight(app) => ~BeyondRight(app') ]_vars

\* C15 (as claimed): the ball is never beyond the same vertical bound at the
\* start of two consecutive ticks.
C15_NoBoundTwice ==
    [][ OnTickStep =>
          /\ AboveTop(app) => ~AboveTop(app')
          /\ BelowBottom(app) => ~BelowBottom(app') ]_vars

\* C16: an on_tick updates the telemetry buffer if and only if win is true
\* and the tick counter after its increment satisfies tick_count & 0xF ==
\* 0xF; the new buffer is then a fresh sample of [0, 100) followed by the old
\* buffer without its last element. Every other tick, and every key (paddle
\* moves and reset included), leaves the buffer unchanged.
C16_Telemetry ==
    [][ InRunApp /\ InRunApp' =>
          IF OnTickStep /\ app.win /\ app'.tick_count % SampleTicks = SampleTicks - 1
          THEN /\ Len(app'.streamdata) = Len(app.streamdata)
               /\ app'.streamdata[1] \in 0..(SignalUpper - 1)
               /\ SubSeq(app'.streamdata, 2, StreamLen)
                    = SubSeq(app.streamdata, 1, StreamLen - 1)
          ELSE app'.streamdata = app.streamdata ]_vars

\* the tick that makes tick_count & 0xF == 0xF after the win has just
\* ended: the buffer starts with the fresh sample and differs from the one
\* App::new collected
C16_Witness ==
    /\ pc = "win" /\ app.win
    /\ app.tick_count % SampleTicks = SampleTicks - 1
    /\ app.streamdata[1] \in Values
    /\ app.streamdata[2] = Stream(Ref.seed)[1]
    /\ app.streamdata # Stream(Ref.seed)

\* C19: at every render, score >= 10 implies win, so the score gauge, drawn
\* only when win is false, gets score <= 9; and bump <= 99. Both gauge
\* percentages, score * 10 and bump, are at most 100.
C19_GaugesInRange ==
    pc = "draw" =>
        /\ app.score >= WinScore => app.win
        /\ ~app.win => app.score <= WinScore - 1
        /\ app.bump <= 99
        /\ ~app.win => app.score * 10 <= 100 /\ app.bump <= 100

\* the render that follows the scoring of the tenth point: win is set, the
\* gauges are not drawn
C19_Witness ==
    /\ pc = "draw" /\ app.win
    /\ app.score = WinScore
    /\ app.win_time = WinTime(app.tick_count)

\* a render before the win with the level gauge at 99 percent
C19_WitnessBump ==
    /\ pc = "draw" /\ ~app.win
    /\ app.score > 0
    /\ app.bump = 99

\* main has left run_app
Ended == pc \in {"restore_raw", "leave_screen", "done", "failed", "panicked"}

\* C17: in every iteration of the run_app loop terminal.draw is called
\* exactly once, before the input is polled, whether or not a tick fires;
\* on_tick is called at most once per iteration and only with at least the
\* tick interval elapsed since the previous on_tick (or the start of the
\* loop), so the ticks executed never exceed the time passed divided by the
\* tick interval.
C17_LoopOrder ==
    [][ /\ pc' = "draw" => frames' = iter' - 1
        /\ pc' \in {"poll", "tick", "win"} => frames' = iter'
        /\ pc' \in {"draw", "poll", "tick"} => ticks' <= iter' - 1
        /\ pc' = "win" => ticks' <= iter'
        /\ pc' = "poll" /\ pc # "poll" => pc = "draw"
        /\ InRunApp /\ InRunApp' /\ app'.tick_count = app.tick_count + 1 =>
              OnTickCall /\ elapsed >= TickRate
        /\ ticks' * TickRate <= now'
        /\ InRunApp' => ticks' * TickRate + elapsed' <= now' ]_vars

\* three iterations have drawn three frames; two of them ran on_tick, in
\* twice the tick interval
C17_Witness ==
    /\ pc = "win"
    /\ iter = 3 /\ frames = 3
    /\ ticks = 2
    /\ now = 2 * TickRate

\* C18: every iteration that polls with an input event pending reads the
\* oldest one before it decides whether to tick, so a 'q' queued behind k
\* other events ends run_app within k + 1 iterations: the loop never begins
\* an iteration after the one that reads it. The iteration that reads it
\* returns Ok without an on_tick unless the read fails, each earlier one
\* runs at most one on_tick, and run_app may end earlier, with an error or a
\* panic.
C18_QuitWithin ==
    [][ /\ InRunApp' /\ quit' # NoQuit => iter' <= quit'.by
        /\ quit # NoQuit => quit' = quit
        /\ quit' # NoQuit /\ quit = NoQuit =>
              quit'.by <= iter + quit'.k + 1
        /\ pc = "poll" /\ pc' # "poll" /\ queue # <<>> =>
              \/ queue' = Tail(queue)
              \/ pc' = "restore_raw" /\ res' = "err"
        /\ pc = "poll" /\ pc' # "poll" /\ queue # <<>> /\ Head(queue) = "q" =>
              /\ pc' = "restore_raw" /\ res' \in {"ok", "err"}
              /\ ticks' = ticks
        /\ ticks' <= iter' ]_vars

\* a 'q' queued behind one other event has been read in the second iteration
\* after it: run_app has returned Ok, with one on_tick in each earlier
\* iteration
C18_Witness ==
    /\ pc = "restore_raw" /\ res = "ok"
    /\ quit.k = 1
    /\ quit.by = iter
    /\ iter = 3
    /\ ticks = 2

\* C18 (as claimed): once a 'q' is queued behind k events, run_app returns
\* Ok within k + 1 iterations.
C18_QuitReturnsOk ==
    quit # NoQuit =>
        /\ InRunApp => iter <= quit.by
        /\ Ended => res = "ok"

====
